---- MODULE Spec2Model ----
(***************************************************************************)
(* Model of bnk_autoconverter.py: the batch pipeline that, per selected    *)
(* .bnk archive, acquires the workspace temp_<basename>, extracts .wem     *)
(* fragments with the external extractor, converts each fragment with the  *)
(* external converter, filters the outputs by size and by duplicate size,  *)
(* and removes the workspace.                                              *)
(*                                                                         *)
(* The file system is a set of directories and a set of files keyed by     *)
(* absolute path; a pathlib.Path is a record [abs, parts] that is resolved *)
(* against the process working directory when it is used, as the operating *)
(* system does.  The external tools and the I/O faults are nondeterministic*)
(* choices of the environment.  The calls that may raise are shutil.rmtree *)
(* (lines 277, 255/265 and 302), file_output_dir.mkdir (281),              *)
(* shutil.copy2 (174) and os.chdir into the workspace (179); shutil.move   *)
(* raises when its destination exists; os.chdir back, unlink and mkdir of  *)
(* the workspace are taken to succeed.  A run may start with the workspace *)
(* of archive a left on disk by a run that crashed.                        *)
(***************************************************************************)
EXTENDS Integers, Sequences, FiniteSets, TLC

\* ---------------------------------------------------------------- bounds
MaxFrags == 3
MaxSize == 2

\* The input directory holds two archives: a, with up to MaxFrags fragments in
\* it, and b, with one.
Archives == {"a", "b"}
FragsIn(archive) == IF archive = "a" THEN MaxFrags ELSE 1
FragIds == 1..MaxFrags
Sizes == 1..MaxSize
Verbosities == {1, 2, 3}
MinFileSizeInputs == {MaxSize}

VARIABLES
    verbosity, cleanup_wem, delete_small, min_file_size, remove_duplicates,
    files_to_process, processed_files,
    idx, pc, result,
    cwd, original_dir, dirs, files,
    success, wem_files, count, file_sizes,
    spinning, threads,
    convlog, outcomes, swallowed, fault, printed

config == <<verbosity, cleanup_wem, delete_small, min_file_size, remove_duplicates,
            files_to_process>>
fsys == <<cwd, dirs, files>>
conv == <<wem_files, count, file_sizes, convlog>>
spin == <<spinning, threads>>
vars == <<verbosity, cleanup_wem, delete_small, min_file_size, remove_duplicates,
          files_to_process, processed_files, idx, pc, result, cwd, original_dir,
          dirs, files, success, wem_files, count, file_sizes, spinning, threads,
          convlog, outcomes, swallowed, fault, printed>>

\* ----------------------------------------------------------------- paths
\* One path component.  k is the kind of name, n the archive base name it is
\* built from, i the fragment number it is built from.
Comp(k, n, i) == [k |-> k, n |-> n, i |-> i]

OutputName == Comp("output", "", 0)
TempName(basename) == Comp("temp_", basename, 0)
StemName(basename) == Comp("stem", basename, 0)
BnkName(basename) == Comp("bnk", basename, 0)
WemName(i) == Comp("wem", "", i)
OutName(i) == Comp("ext", "", i)

Abs(parts) == [abs |-> TRUE, parts |-> parts]
Rel(parts) == [abs |-> FALSE, parts |-> parts]
Join(p, name) == [abs |-> p.abs, parts |-> Append(p.parts, name)]

\* The absolute path a Path denotes when the working directory is wd.
Resolve(p, wd) == IF p.abs THEN p.parts ELSE wd \o p.parts

IsPrefix(p, q) == Len(p) <= Len(q) /\ SubSeq(q, 1, Len(p)) = p
Parent(q) == SubSeq(q, 1, Len(q) - 1)
Last(q) == q[Len(q)]

\* The launch directory, which is also where the script and its input and
\* output directories live.
LaunchDir == << >>
OutputBaseDir == Abs(<<OutputName>>)

\* ----------------------------------------------------------- file system
File(path, org, size) == [path |-> path, org |-> org, size |-> size]

PathExists(D, F, p) == p \in D \/ \E f \in F : f.path = p
FileAt(F, p) == CHOOSE f \in F : f.path = p
WriteFile(F, p, org, size) == {f \in F : f.path # p} \cup {File(p, org, size)}
Unlink(F, p) == {f \in F : f.path # p}
\* Variant: the tree is emptied of files and its directories stay.
RmTreeDirs_Keep(D, p) == D

RmTreeDirs(D, p) == {d \in D : ~IsPrefix(p, d)}
RmTreeFiles(F, p) == {f \in F : ~IsPrefix(p, f.path)}

RECURSIVE SortedSeq(_)
SortedSeq(S) ==
    IF S = {} THEN << >>
    ELSE LET m == CHOOSE x \in S : \A y \in S : x <= y
         IN <<m>> \o SortedSeq(S \ {m})

\* temp_dir.glob("*.wem"): the fragment numbers of the .wem files directly in
\* directory p, in the (stable) order the file system reports them.
GlobWem(F, p) ==
    SortedSeq({i \in FragIds : \E f \in F : f.path = Append(p, WemName(i))})

\* ------------------------------------------------------------ Shell Runner
\* What one run of an external tool comes to: its exit status, and whether
\* the bytes it printed decode in the locale's encoding.
ChildResults == {[status |-> 0, decodable |-> TRUE],
                 [status |-> 0, decodable |-> FALSE],
                 [status |-> 1, decodable |-> TRUE]}

\* run_command: at verbosity 3 the child's output goes to the console and the
\* result is returncode == 0.  Below 3 the output is captured with text=True,
\* so subprocess.run decodes it first: on undecodable bytes it raises, the
\* except clause catches that, and the result is False.
run_command(child, v) ==
    IF v = 3 THEN child.status = 0
    ELSE IF child.decodable THEN child.status = 0
    ELSE FALSE

\* Whether run_command prints its diagnostic "Error running command": the
\* except clause is entered when subprocess.run raised, which is the decoding
\* of captured output failing, and it prints when verbosity > 1.
run_command_prints(child, v) == v # 3 /\ ~child.decodable /\ v > 1

\* ------------------------------------------------------------- directories
TempDir(basename) == Rel(<<TempName(basename)>>)

\* Variant: every archive's outputs go to the main output directory.
FileOutputDir_Shared(basename) == OutputBaseDir

FileOutputDir(basename) == Join(OutputBaseDir, StemName(basename))

cur == files_to_process[idx]
temp_dir == TempDir(cur)
file_output_dir == FileOutputDir(cur)

\* --------------------------------------------------------------- filtering
NoSizes == [s \in {} |-> 0]

\* Variant: the size is never recorded.
should_delete_file_NoRecord(name, file_size, ds, mfs, rd, fsz) ==
    IF ds /\ file_size < mfs
    THEN [del |-> TRUE, reason |-> "small", file_sizes |-> fsz]
    ELSE IF rd /\ file_size \in DOMAIN fsz
    THEN [del |-> TRUE, reason |-> "duplicate", file_sizes |-> fsz]
    ELSE [del |-> FALSE, reason |-> "none", file_sizes |-> fsz]

\* Variant: the duplicate test and the recording come before the size test.
should_delete_file_RecordFirst(name, file_size, ds, mfs, rd, fsz) ==
    LET rec == [s \in DOMAIN fsz \cup {file_size} |->
                   IF s = file_size THEN name ELSE fsz[s]]
    IN IF rd /\ file_size \in DOMAIN fsz
       THEN [del |-> TRUE, reason |-> "duplicate", file_sizes |-> fsz]
       ELSE IF ds /\ file_size < mfs
       THEN [del |-> TRUE, reason |-> "small", file_sizes |-> IF rd THEN rec ELSE fsz]
       ELSE [del |-> FALSE, reason |-> "none", file_sizes |-> IF rd THEN rec ELSE fsz]

\* Variant: a duplicate takes over the entry of its size.
should_delete_file_Overwrite(name, file_size, ds, mfs, rd, fsz) ==
    IF ds /\ file_size < mfs
    THEN [del |-> TRUE, reason |-> "small", file_sizes |-> fsz]
    ELSE IF rd /\ file_size \in DOMAIN fsz
    THEN [del |-> TRUE, reason |-> "duplicate",
          file_sizes |-> [s \in DOMAIN fsz |-> IF s = file_size THEN name ELSE fsz[s]]]
    ELSE IF rd
    THEN [del |-> FALSE, reason |-> "none",
          file_sizes |-> [s \in DOMAIN fsz \cup {file_size} |->
                             IF s = file_size THEN name ELSE fsz[s]]]
    ELSE [del |-> FALSE, reason |-> "none", file_sizes |-> fsz]

\* should_delete_file: the decision, its reason and the file_sizes dictionary
\* as the call leaves it.
should_delete_file(name, file_size, ds, mfs, rd, fsz) ==
    IF ds /\ file_size < mfs
    THEN [del |-> TRUE, reason |-> "small", file_sizes |-> fsz]
    ELSE IF rd /\ file_size \in DOMAIN fsz
    THEN [del |-> TRUE, reason |-> "duplicate", file_sizes |-> fsz]
    ELSE IF rd
    THEN [del |-> FALSE, reason |-> "none",
          file_sizes |-> [s \in DOMAIN fsz \cup {file_size} |->
                             IF s = file_size THEN name ELSE fsz[s]]]
    ELSE [del |-> FALSE, reason |-> "none", file_sizes |-> fsz]

\* ------------------------------------------------------------------- Init
\* bnk_files, in the order input_dir.glob reports them.
bnk_files == <<"a", "b">>

\* The selections select_files returns for the answers A (all files) and 1, 2
\* (one file).
Selections == {bnk_files} \cup {<<bnk_files[i]>> : i \in 1..Len(bnk_files)}

\* What a run that crashed while it processed archive a left in the launch
\* directory: the workspace temp_a with a fragment in it.
StaleDirs == {Resolve(TempDir("a"), LaunchDir)}
StaleFiles == {File(Resolve(Join(TempDir("a"), WemName(MaxFrags)), LaunchDir), "prior", 0)}

Init ==
    /\ verbosity \in Verbosities
    /\ cleanup_wem \in BOOLEAN
    /\ delete_small \in BOOLEAN
    /\ min_file_size \in (IF delete_small THEN MinFileSizeInputs ELSE {0})
    /\ remove_duplicates \in BOOLEAN
    /\ files_to_process \in Selections
    /\ processed_files = << >>
    /\ idx = 1
    /\ pc = "main"
    /\ result = FALSE
    /\ cwd = LaunchDir
    /\ original_dir = LaunchDir
    /\ \E stale \in BOOLEAN :
         /\ dirs = IF stale THEN StaleDirs ELSE {}
         /\ files = IF stale THEN StaleFiles ELSE {}
    /\ success = FALSE
    /\ wem_files = << >>
    /\ count = 0
    /\ file_sizes = NoSizes
    /\ spinning = FALSE
    /\ threads = 0
    /\ convlog = << >>
    /\ outcomes = << >>
    /\ swallowed = FALSE
    /\ fault = "none"
    /\ printed = "none"

\* ---------------------------------------------------------------- spinner
\* ProgressSpinner.start: sets the flag and starts one more spinner thread.
SpinnerStart ==
    /\ spinning' = TRUE
    /\ threads' = threads + 1

\* Variant: stop clears the flag and does not wait for the thread.
SpinnerStop_NoJoin ==
    /\ spinning' = FALSE
    /\ threads' = threads

\* ProgressSpinner.stop: clears the flag; every spinner thread leaves its loop
\* and the one the object refers to is joined.
SpinnerStop ==
    /\ spinning' = FALSE
    /\ threads' = 0

\* ------------------------------------------------------------------- main
\* main, up to the list comprehension: the selection is not empty, the main
\* output directory is created.
MainStart ==
    /\ pc = "main"
    /\ printed' = "none"
    /\ dirs' = dirs \cup {OutputBaseDir.parts}
    /\ pc' = "loop"
    /\ UNCHANGED <<config, processed_files, idx, result, cwd, original_dir, files,
                   success, conv, spin, outcomes, swallowed, fault>>

\* Variant: the leftover is never looked for.
StaleExists_Never(D, F, t) == FALSE

\* if temp_dir.exists(), at acquisition.
StaleExists(D, F, t) == PathExists(D, F, t)

\* process_bnk_file, lines 276-277: a leftover temp_<basename> is removed
\* recursively; shutil.rmtree may raise, outside the try block.
Purge ==
    /\ pc = "loop"
    /\ printed' = "none"
    /\ idx <= Len(files_to_process)
    /\ LET t == Resolve(temp_dir, cwd)
       IN /\ StaleExists(dirs, files, t)
          /\ \E ok \in BOOLEAN :
               IF ok
               THEN /\ dirs' = RmTreeDirs(dirs, t)
                    /\ files' = RmTreeFiles(files, t)
                    /\ pc' = "purged"
                    /\ UNCHANGED fault
               ELSE /\ pc' = "crashed"
                    /\ fault' = "rmtree_stale"
                    /\ UNCHANGED <<dirs, files>>
    /\ UNCHANGED <<config, processed_files, idx, result, cwd, original_dir,
                   success, conv, spin, outcomes, swallowed>>

\* process_bnk_file, temp_dir.mkdir(), reached when no leftover was found or
\* after the leftover was removed.
Acquire ==
    /\ \/ pc = "purged"
       \/ /\ pc = "loop"
          /\ idx <= Len(files_to_process)
          /\ ~StaleExists(dirs, files, Resolve(temp_dir, cwd))
    /\ printed' = "none"
    /\ dirs' = dirs \cup {Resolve(temp_dir, cwd)}
    /\ pc' = "mkout"
    /\ UNCHANGED <<config, processed_files, idx, result, cwd, original_dir, files,
                   success, conv, spin, outcomes, swallowed, fault>>

\* process_bnk_file, file_output_dir.mkdir(exist_ok=True): it may raise, and it
\* stands before the try block.
MkOutDir ==
    /\ pc = "mkout"
    /\ printed' = "none"
    /\ \E ok \in BOOLEAN :
         IF ok
         THEN /\ dirs' = dirs \cup {Resolve(file_output_dir, cwd)}
              /\ pc' = "extract"
              /\ UNCHANGED fault
         ELSE /\ pc' = "crashed"
              /\ fault' = "mkdir_output"
              /\ UNCHANGED dirs
    /\ UNCHANGED <<config, processed_files, idx, result, cwd, original_dir, files,
                   success, conv, spin, outcomes, swallowed>>

\* extract_bnk up to the extractor call: copy the archive into the workspace
\* (shutil.copy2 may raise), start the spinner, remember the working directory
\* and change into the workspace (os.chdir may raise, with the spinner
\* running).
ExtractBegin ==
    /\ pc = "extract"
    /\ printed' = "none"
    /\ \E raised \in {"none", "copy2", "chdir"} :
         IF raised = "copy2"
         THEN /\ pc' = "except"
              /\ fault' = "copy2"
              /\ UNCHANGED <<files, spin, original_dir, cwd>>
         ELSE /\ files' = WriteFile(files, Resolve(Join(temp_dir, BnkName(cur)), cwd), cur, 0)
              /\ SpinnerStart
              /\ original_dir' = cwd
              /\ IF raised = "chdir"
                 THEN /\ pc' = "except"
                      /\ fault' = "chdir"
                      /\ UNCHANGED cwd
                 ELSE /\ cwd' = Resolve(temp_dir, cwd)
                      /\ pc' = "extract_run"
                      /\ UNCHANGED fault
    /\ UNCHANGED <<config, processed_files, idx, result, dirs, success, conv, outcomes,
                   swallowed>>

\* The fragments the extractor writes into the working directory: 1..n, each
\* carrying the origin of the archive file it read.
ExtractorWrites(F, wd, org, n) ==
    {f \in F : ~\E i \in 1..n : f.path = Append(wd, WemName(i))}
        \cup {File(Append(wd, WemName(i)), org, 0) : i \in 1..n}

\* extract_bnk, run_command(extract_cmd): the extractor is given the bare file
\* name, which it finds in the working directory or not at all.  Whatever
\* its exit status, it may have written fragments.
ExtractRun ==
    /\ pc = "extract_run"
    /\ LET arch == Resolve(Rel(<<BnkName(cur)>>), cwd)
       IN IF \E f \in files : f.path = arch
          THEN \E child \in ChildResults, n \in 0..FragsIn(FileAt(files, arch).org) :
                 /\ files' = ExtractorWrites(files, cwd, FileAt(files, arch).org, n)
                 /\ success' = run_command(child, verbosity)
                 /\ printed' = IF run_command_prints(child, verbosity)
                               THEN "run_command" ELSE "none"
          ELSE /\ success' = FALSE
               /\ printed' = "none"
               /\ UNCHANGED files
    /\ pc' = "extract_end"
    /\ UNCHANGED <<config, processed_files, idx, result, cwd, original_dir, dirs,
                   conv, spin, outcomes, swallowed, fault>>

\* Variant: the result of extract_bnk is not tested.
AfterExtract_Always(ok) == "convert"

\* if not extract_bnk(...): where process_bnk_file goes on.
AfterExtract(ok) == IF ok THEN "convert" ELSE "err_extract"

\* extract_bnk after the extractor call: unlink temp_bnk if temp_bnk.exists()
\* (a relative path, looked up from the working directory of the moment),
\* change back, stop the spinner, return success.
ExtractEnd ==
    /\ pc = "extract_end"
    /\ printed' = "none"
    /\ LET temp_bnk == Resolve(Join(temp_dir, BnkName(cur)), cwd)
       IN files' = IF PathExists(dirs, files, temp_bnk) THEN Unlink(files, temp_bnk)
                   ELSE files
    /\ cwd' = original_dir
    /\ SpinnerStop
    /\ pc' = AfterExtract(success)
    /\ UNCHANGED <<config, processed_files, idx, result, original_dir, dirs,
                   success, conv, outcomes, swallowed, fault>>

\* Variant: a return False goes through cleanup_temp_dir.
FailureContinuation_Cleanup == "cleanup"

\* Where a return False inside the try block continues: the finally block.
FailureContinuation == "finally"

\* process_bnk_file, the extraction-failure branch: the message is printed and
\* False is returned.
ErrExtract ==
    /\ pc = "err_extract"
    /\ printed' = "extract_failed"
    /\ result' = FALSE
    /\ outcomes' = Append(outcomes, [archive |-> cur, kind |-> "extract_failed"])
    /\ pc' = FailureContinuation
    /\ UNCHANGED <<config, processed_files, idx, fsys, original_dir, success, conv, spin, swallowed, fault>>

\* -------------------------------------------------------------- conversion
\* Variant: the dictionary outlives the pass (a module-level dictionary).
FreshFileSizes_Kept(old) == old

\* The dictionary a conversion pass starts with, given the one the previous
\* pass left behind: file_sizes = {}.
FreshFileSizes(old) == NoSizes

\* Variant: the enumeration is never tested for emptiness.
NoFragments_Never(found) == FALSE

\* if not wem_files.
NoFragments(found) == found = << >>

\* convert_wem_files up to the loop: enumerate the fragments; none means
\* return False; otherwise a fresh file_sizes and, at verbosity 1, the spinner.
ConvertBegin ==
    /\ pc = "convert"
    /\ printed' = "none"
    /\ LET found == GlobWem(files, Resolve(temp_dir, cwd))
       IN /\ wem_files' = found
          /\ convlog' = << >>
          /\ IF NoFragments(found)
             THEN /\ pc' = "err_nowem"
                  /\ UNCHANGED <<count, file_sizes, spin>>
             ELSE /\ file_sizes' = FreshFileSizes(file_sizes)
                  /\ count' = 1
                  /\ IF verbosity = 1 THEN SpinnerStart ELSE UNCHANGED spin
                  /\ pc' = "convert_loop"
    /\ UNCHANGED <<config, processed_files, idx, result, fsys, original_dir,
                   success, outcomes, swallowed, fault>>

\* Variant: the loop ends at the first fragment whose conversion fails.
NextCount_BreakOnFailure(c, ok, n) == IF ok THEN c + 1 ELSE n + 1

\* for count, wem_file in enumerate(wem_files, 1): the position after the one
\* at c, whose conversion reported ok, of n.
NextCount(c, ok, n) == c + 1

\* Variant: the pass reports whether any fragment was converted.
ConvertResult_AnyConverted(log) == \E i \in 1..Len(log) : log[i].ok

\* What convert_wem_files returns after the loop: return True.
ConvertResult(log) == TRUE

\* get_file_size: the size of the file at p, 0 when it cannot be read.
get_file_size(F, p) == IF \E f \in F : f.path = p THEN FileAt(F, p).size ELSE 0

\* convert_wem_files, one iteration of the loop: the converter exits with a
\* nonzero status, or with status 0 having written the output with some size;
\* when run_command reports success the output is measured, decided on and,
\* on a delete decision, unlinked.  (A run whose output does not decode is
\* given one size only: where its size is measured, at verbosity 3, it is no
\* different from a run whose output decodes.)
ConvertOne ==
    /\ pc = "convert_loop"
    /\ count <= Len(wem_files)
    /\ LET i == wem_files[count]
           wem_file == Resolve(Join(temp_dir, WemName(i)), cwd)
           output_file == Resolve(Join(file_output_dir, OutName(i)), cwd)
       IN \E child \in ChildResults, written \in Sizes :
            LET wrote == child.status = 0 /\ \E f \in files : f.path = wem_file
                F1 == IF wrote
                      THEN WriteFile(files, output_file, FileAt(files, wem_file).org, written)
                      ELSE files
                convert_success == wrote /\ run_command(child, verbosity)
                file_size == get_file_size(F1, output_file)
                d == should_delete_file(i, file_size, delete_small, min_file_size,
                                        remove_duplicates, file_sizes)
            IN /\ (~wrote \/ ~child.decodable) => written = 1
               /\ printed' = IF run_command_prints(child, verbosity) THEN "run_command"
                             ELSE IF ~convert_success /\ verbosity = 3
                             THEN "failed_to_convert"
                             ELSE "none"
               /\ IF convert_success
                  THEN /\ files' = IF d.del THEN Unlink(F1, output_file)
                                   ELSE F1
                       /\ file_sizes' = d.file_sizes
                       /\ convlog' = Append(convlog,
                              [frag |-> i, child |-> child, ok |-> TRUE, size |-> file_size,
                               del |-> d.del, reason |-> d.reason])
                  ELSE /\ files' = F1
                       /\ convlog' = Append(convlog,
                              [frag |-> i, child |-> child, ok |-> FALSE,
                               size |-> IF wrote THEN written ELSE 0,
                               del |-> FALSE, reason |-> "failed"])
                       /\ UNCHANGED file_sizes
               /\ count' = NextCount(count, convert_success, Len(wem_files))
    /\ UNCHANGED <<config, processed_files, idx, pc, result, cwd, dirs, original_dir,
                   success, wem_files, spin, outcomes, swallowed, fault>>

\* convert_wem_files after the loop: at verbosity 1 the spinner is stopped;
\* True is returned.
ConvertEnd ==
    /\ pc = "convert_loop"
    /\ printed' = "none"
    /\ count > Len(wem_files)
    /\ IF verbosity = 1 THEN SpinnerStop ELSE UNCHANGED spin
    /\ pc' = IF ConvertResult(convlog) THEN "cleanup" ELSE "err_nowem"
    /\ UNCHANGED <<config, processed_files, idx, result, fsys, original_dir,
                   success, conv, outcomes, swallowed, fault>>

\* process_bnk_file, the no-fragments branch: the message is printed and False
\* is returned.
ErrNoWem ==
    /\ pc = "err_nowem"
    /\ printed' = "no_wem"
    /\ result' = FALSE
    /\ outcomes' = Append(outcomes, [archive |-> cur, kind |-> "no_wem"])
    /\ pc' = FailureContinuation
    /\ UNCHANGED <<config, processed_files, idx, fsys, original_dir, success, conv, spin, swallowed, fault>>

\* ----------------------------------------------------------------- cleanup
\* The loop of cleanup_temp_dir that moves the fragments of directory t into
\* directory out.  shutil.move raises when the destination name exists; the
\* loop swallows that and leaves the fragment where it is.
MoveWems(F, D, t, out) ==
    LET moved == {f \in F : /\ Len(f.path) = Len(t) + 1
                            /\ Parent(f.path) = t
                            /\ Last(f.path).k = "wem"
                            /\ ~PathExists(D, F, Append(out, Last(f.path)))}
    IN (F \ moved) \cup {File(Append(out, Last(f.path)), f.org, f.size) : f \in moved}

\* Variant: the fragments are never moved out.
CleanupMoves_None(F, D, t, out, cleanup) == F

\* The files as cleanup_temp_dir has them before its shutil.rmtree.
CleanupMoves(F, D, t, out, cleanup) == IF cleanup THEN F ELSE MoveWems(F, D, t, out)

\* cleanup_temp_dir and the return True that follows it: with cleanup_wem the
\* workspace is removed, without it the fragments are moved out first.
\* shutil.rmtree may raise, which leaves the workspace and goes to the handler.
Cleanup ==
    /\ pc = "cleanup"
    /\ printed' = "none"
    /\ LET t == Resolve(temp_dir, cwd)
           out == Resolve(file_output_dir, cwd)
           F1 == CleanupMoves(files, dirs, t, out, cleanup_wem)
       IN IF PathExists(dirs, F1, t)
          THEN \E ok \in BOOLEAN :
                 IF ok
                 THEN /\ files' = RmTreeFiles(F1, t)
                      /\ dirs' = RmTreeDirs(dirs, t)
                      /\ pc' = "return_true"
                      /\ UNCHANGED fault
                 ELSE /\ files' = F1
                      /\ pc' = "except"
                      /\ fault' = "rmtree_cleanup"
                      /\ UNCHANGED dirs
          ELSE /\ files' = F1
               /\ pc' = "return_true"
               /\ UNCHANGED <<dirs, fault>>
    /\ UNCHANGED <<config, processed_files, idx, result, cwd, original_dir,
                   success, conv, spin, outcomes, swallowed>>

\* process_bnk_file, return True.
ReturnTrue ==
    /\ pc = "return_true"
    /\ printed' = "none"
    /\ result' = TRUE
    /\ outcomes' = Append(outcomes, [archive |-> cur, kind |-> "ok"])
    /\ pc' = "finally"
    /\ UNCHANGED <<config, processed_files, idx, fsys, original_dir, success, conv, spin, swallowed, fault>>

\* process_bnk_file, except Exception: the spinner is stopped.
Except ==
    /\ pc = "except"
    /\ printed' = "none"
    /\ SpinnerStop
    /\ pc' = "err_exception"
    /\ UNCHANGED <<config, processed_files, idx, result, fsys, original_dir,
                   success, conv, outcomes, swallowed, fault>>

\* process_bnk_file, except Exception: the message is printed and False is
\* returned.
ErrException ==
    /\ pc = "err_exception"
    /\ printed' = "exception"
    /\ result' = FALSE
    /\ outcomes' = Append(outcomes, [archive |-> cur, kind |-> "exception"])
    /\ pc' = FailureContinuation
    /\ UNCHANGED <<config, processed_files, idx, fsys, original_dir, success, conv, spin, swallowed, fault>>

\* Variant: no finally block.
FinallyRemoves_Never(D, F, t) == FALSE

\* Whether the finally block attempts the removal of workspace t.
FinallyRemoves(D, F, t) == PathExists(D, F, t)

\* The report after one archive returned r.
Report(report, archive, r) == IF r THEN Append(report, archive) ELSE report

\* Variant: the batch stops at the first archive that fails.
NextIndex_StopOnFailure(i, r) == IF r THEN i + 1 ELSE Len(files_to_process) + 1

\* The position main continues at after the archive at position i returned r.
NextIndex(i, r) == i + 1

\* process_bnk_file, the finally block, and the return into the list
\* comprehension of main: when the workspace exists its removal is attempted
\* and a failure swallowed; the archive enters processed_files when the
\* result is True.  The locals of the call end with it (file_sizes keeps its
\* last value: nothing but the next conversion pass assigns it).
Finally ==
    /\ pc = "finally"
    /\ printed' = "none"
    /\ LET t == Resolve(temp_dir, cwd)
       IN IF FinallyRemoves(dirs, files, t)
          THEN \E ok \in BOOLEAN :
                 IF ok
                 THEN /\ files' = RmTreeFiles(files, t)
                      /\ dirs' = RmTreeDirs(dirs, t)
                      /\ swallowed' = FALSE
                 ELSE /\ swallowed' = TRUE
                      /\ UNCHANGED <<files, dirs>>
          ELSE /\ swallowed' = FALSE
               /\ UNCHANGED <<files, dirs>>
    /\ processed_files' = Report(processed_files, cur, result)
    /\ idx' = NextIndex(idx, result)
    /\ pc' = "loop"
    /\ result' = FALSE
    /\ success' = FALSE
    /\ wem_files' = << >>
    /\ count' = 0
    /\ convlog' = << >>
    /\ fault' = "none"
    /\ UNCHANGED <<config, cwd, original_dir, file_sizes, spin, outcomes>>

\* main after the list comprehension: the summary is printed.
Summary ==
    /\ pc = "loop"
    /\ printed' = "none"
    /\ idx > Len(files_to_process)
    /\ pc' = "done"
    /\ UNCHANGED <<config, processed_files, idx, result, fsys, original_dir,
                   success, conv, spin, outcomes, swallowed, fault>>

Next ==
    \/ MainStart
    \/ Purge
    \/ Acquire
    \/ MkOutDir
    \/ ExtractBegin
    \/ ExtractRun
    \/ ExtractEnd
    \/ ErrExtract
    \/ ConvertBegin
    \/ ConvertOne
    \/ ConvertEnd
    \/ ErrNoWem
    \/ Cleanup
    \/ ReturnTrue
    \/ Except
    \/ ErrException
    \/ Finally
    \/ Summary

Spec == Init /\ [][Next]_vars

\* ================================================================== claims
\* Where archive b's workspace and output subdirectory are on disk.
Workspace(b) == Resolve(TempDir(b), LaunchDir)
OutputSubdir(b) == Resolve(FileOutputDir(b), LaunchDir)
Under(dir, F) == {f \in F : IsPrefix(dir, f.path)}
Range(seq) == {seq[i] : i \in 1..Len(seq)}
Returned == pc = "loop" /\ idx > 1
LastOutcome == outcomes[Len(outcomes)]

\* C1 (as stated): whenever process_bnk_file has returned for an archive, by
\* any of its returns, that archive's workspace directory does not exist.
C1_WorkspaceGoneOnReturn ==
    Returned => ~PathExists(dirs, files, Workspace(files_to_process[idx - 1]))

\* C1 (amended): whenever process_bnk_file has returned for an archive, that
\* archive's workspace directory does not exist, unless the removal attempted
\* in the finally block raised and was swallowed.
C1_WorkspaceGoneUnlessSwallowed ==
    (Returned /\ ~swallowed)
        => ~PathExists(dirs, files, Workspace(files_to_process[idx - 1]))

\* A return of False after a caught exception, with the workspace removed.
C1_Witness ==
    /\ Returned
    /\ ~swallowed
    /\ Len(outcomes) = idx - 1
    /\ LastOutcome.kind = "exception"
    /\ ~PathExists(dirs, files, Workspace(files_to_process[idx - 1]))

RECURSIVE OkArchives(_)
OkArchives(o) ==
    IF o = << >> THEN << >>
    ELSE IF o[Len(o)].kind = "ok"
    THEN Append(OkArchives(SubSeq(o, 1, Len(o) - 1)), o[Len(o)].archive)
    ELSE OkArchives(SubSeq(o, 1, Len(o) - 1))

\* C2: an archive whose extraction fails does not stop the run: processing
\* moves on to the archives after it, the summary is reached only when every
\* selected archive has been processed, and the report is, in selection order,
\* exactly the archives whose processing returned True.
C2_BatchIsolation ==
    /\ \A i \in 1..Len(outcomes) :
         /\ outcomes[i].archive = files_to_process[i]
         /\ outcomes[i].kind = "extract_failed"
              => idx > i \/ (idx = i /\ pc = "finally")
    /\ pc = "done" => Len(outcomes) = Len(files_to_process)
    /\ pc \in {"loop", "done"} => processed_files = OkArchives(outcomes)

\* The first archive failed extraction, the second succeeded, and the report
\* holds only the second.
C2_Witness ==
    /\ pc = "done"
    /\ Len(files_to_process) = 2
    /\ Len(outcomes) = 2
    /\ outcomes[1].kind = "extract_failed"
    /\ outcomes[2].kind = "ok"
    /\ processed_files = <<files_to_process[2]>>

\* C3: a fault raised at any step after the workspace has been acquired
\* (output-subdirectory creation, archive copy, cleanup) is caught at the
\* archive level, with the spinner stopped when the failure is reported; it
\* never leaves process_bnk_file.
C3_FaultsCaughtAtArchiveLevel ==
    /\ fault \in {"mkdir_output", "copy2", "rmtree_cleanup"} => pc # "crashed"
    /\ pc = "err_exception" => ~spinning /\ threads = 0

Small(size) == delete_small /\ size < min_file_size
SameSizeBefore(log, i) == \E j \in 1..(i - 1) : log[j].ok /\ log[j].size = log[i].size

\* C4: with duplicate removal on and small-file deletion off, the decision for
\* a converted output is delete-as-duplicate exactly when an earlier converted
\* output of the same pass had the same size, and keep otherwise.
C4_DuplicateLaw ==
    (remove_duplicates /\ ~delete_small)
        => \A i \in 1..Len(convlog) :
             convlog[i].ok
               => IF SameSizeBefore(convlog, i)
                  THEN convlog[i].del /\ convlog[i].reason = "duplicate"
                  ELSE ~convlog[i].del /\ convlog[i].reason = "none"

\* Outputs of sizes [1, 2, 1] decided [keep, keep, delete-as-duplicate].
C4_Witness ==
    /\ remove_duplicates
    /\ ~delete_small
    /\ Len(convlog) = 3
    /\ \A i \in 1..3 : convlog[i].ok
    /\ <<convlog[1].size, convlog[2].size, convlog[3].size>> = <<1, 2, 1>>
    /\ <<convlog[1].reason, convlog[2].reason, convlog[3].reason>>
         = <<"none", "none", "duplicate">>

\* C5: with both filters on, an output below the threshold is decided
\* delete-as-small, never delete-as-duplicate, whatever file_sizes holds and
\* whatever came before; an output of exactly the threshold is not small.
C5_PrecedenceLaw ==
    (delete_small /\ remove_duplicates)
        => /\ \A i \in 1..Len(convlog) :
                convlog[i].ok
                  => /\ convlog[i].size < min_file_size
                          => convlog[i].del /\ convlog[i].reason = "small"
                     /\ convlog[i].size = min_file_size => convlog[i].reason # "small"
           /\ \A size \in Sizes :
                LET d == should_delete_file(0, size, delete_small, min_file_size,
                                            remove_duplicates, file_sizes)
                IN /\ size < min_file_size => d.del /\ d.reason = "small"
                   /\ size = min_file_size => d.reason # "small"

\* Two outputs of one size below the threshold, both decided delete-as-small.
C5_Witness ==
    /\ delete_small
    /\ remove_duplicates
    /\ Len(convlog) >= 2
    /\ convlog[1].ok
    /\ convlog[2].ok
    /\ convlog[1].size = convlog[2].size
    /\ convlog[2].size < min_file_size
    /\ convlog[1].reason = "small"
    /\ convlog[2].reason = "small"

\* The decision the flags and the pass's own earlier outputs call for.
ExpectedReason(log, i) ==
    IF ~log[i].ok THEN "failed"
    ELSE IF Small(log[i].size) THEN "small"
    ELSE IF remove_duplicates /\ SameSizeBefore(log, i) THEN "duplicate"
    ELSE "none"

\* C6: file_sizes is empty when an archive's conversion pass starts, and every
\* decision of the pass is the one that the flags and the pass's own sequence
\* of outputs determine: nothing is carried over from an earlier archive.
C6_NoCrossArchiveState ==
    /\ (pc = "convert_loop" /\ convlog = << >>) => file_sizes = NoSizes
    /\ \A i \in 1..Len(convlog) : convlog[i].reason = ExpectedReason(convlog, i)

\* The second archive's first output is kept although the first archive
\* kept an output of that size.
C6_Witness ==
    /\ remove_duplicates
    /\ idx = 2
    /\ pc = "convert_loop"
    /\ Len(convlog) >= 1
    /\ convlog[1].ok
    /\ convlog[1].reason = "none"
    /\ \E f \in Under(OutputSubdir(files_to_process[1]), files) :
         Last(f.path).k = "ext" /\ f.size = convlog[1].size

\* C7: an archive whose extraction succeeds with no fragment makes the
\* conversion step return False before any converter call; the archive is
\* recorded as failed, is absent from the report and has no entry in its
\* output subdirectory; the conversion loop is entered only with fragments.
C7_NoFragments ==
    /\ pc = "err_nowem"
         => /\ success
            /\ wem_files = << >>
            /\ convlog = << >>
            /\ Under(OutputSubdir(cur), files) = {}
    /\ pc \in {"convert_loop", "cleanup", "return_true"} => wem_files # << >>
    /\ \A i \in 1..Len(outcomes) :
         outcomes[i].kind = "no_wem"
           => /\ outcomes[i].archive \notin Range(processed_files)
              /\ Under(OutputSubdir(outcomes[i].archive), files) = {}

\* An archive has returned after its extraction succeeded with no fragment.
C7_Witness ==
    /\ Returned
    /\ Len(outcomes) = idx - 1
    /\ LastOutcome.kind = "no_wem"
    /\ LastOutcome.archive \notin Range(processed_files)

Roots == [A \in Archives |-> {Workspace(A), OutputSubdir(A)}]
RootsDisjoint ==
    \A A \in Archives : \A B \in Archives \ {A} :
        \A r \in Roots[A] : \A q \in Roots[B] : ~IsPrefix(r, q)

\* C9: the workspaces and output subdirectories of two archives are disjoint,
\* and every file that originates from an archive lies under that archive's
\* workspace or output subdirectory, never under another archive's.
C9_ArchiveDirectoriesDisjoint ==
    /\ RootsDisjoint
    /\ \A f \in files :
         f.org \in Archives
           => /\ \E r \in Roots[f.org] : IsPrefix(r, f.path)
              /\ \A B \in Archives \ {f.org} :
                   \A r \in Roots[B] : ~IsPrefix(r, f.path)

\* Outputs of the first archive and fragments of the second are on disk
\* together.
C9_Witness ==
    /\ idx = 2
    /\ Len(files_to_process) = 2
    /\ Under(OutputSubdir(files_to_process[1]), files) # {}
    /\ \E f \in Under(Workspace(files_to_process[2]), files) : Last(f.path).k = "wem"

\* C10: the outcome a run records for a fragment's conversion is the outcome
\* every verbosity gives for the same result of the converter.
C10_VerbosityNonInterference ==
    \A i \in 1..Len(convlog), v \in Verbosities :
        convlog[i].ok = run_command(convlog[i].child, v)

InConversion == pc \in {"convert", "convert_loop", "err_nowem", "cleanup", "return_true"}
ExtractFailedHere ==
    \/ pc = "err_extract"
    \/ /\ pc = "finally"
       /\ Len(outcomes) = idx
       /\ LastOutcome.kind = "extract_failed"

\* What C11 says of an archive whose extraction returned false, but for the
\* removal of its workspace: conversion is entered only after a successful
\* extraction; no converter call was made and no output file exists for the
\* archive; it is absent from the report.
C11_ConversionSkipped ==
    /\ InConversion => success
    /\ ExtractFailedHere
         => /\ ~success
            /\ convlog = << >>
            /\ Under(OutputSubdir(cur), files) = {}
    /\ \A i \in 1..Len(outcomes) :
         outcomes[i].kind = "extract_failed"
           => /\ Under(OutputSubdir(outcomes[i].archive), files) = {}
              /\ outcomes[i].archive \notin Range(processed_files)

\* C11 (as stated): when extraction returns false for an archive, conversion is
\* skipped, no output file is created for it, and its workspace is removed
\* before the next archive starts.
C11_ExtractionFailureSkipsConversion ==
    /\ C11_ConversionSkipped
    /\ (Returned /\ LastOutcome.kind = "extract_failed")
         => ~PathExists(dirs, files, Workspace(LastOutcome.archive))

\* C11 (amended): when extraction returns false for an archive, conversion is
\* skipped and no output file is created for it; its workspace is removed
\* before the next archive starts unless the removal in the finally block
\* raised and was swallowed.
C11_ExtractionFailureSkipsConversionUnlessSwallowed ==
    /\ C11_ConversionSkipped
    /\ (Returned /\ LastOutcome.kind = "extract_failed" /\ ~swallowed)
         => ~PathExists(dirs, files, Workspace(LastOutcome.archive))

\* The first archive's extraction returned false; the second archive is about
\* to start, with no workspace and no output of the first on disk.
C11_Witness ==
    /\ Returned
    /\ idx <= Len(files_to_process)
    /\ Len(outcomes) = idx - 1
    /\ LastOutcome.kind = "extract_failed"
    /\ ~swallowed
    /\ ~PathExists(dirs, files, Workspace(LastOutcome.archive))
    /\ Under(OutputSubdir(LastOutcome.archive), files) = {}

InPass == pc \in {"convert_loop", "cleanup", "return_true"}

\* The file_sizes dictionary a pass has after the first k fragments of log,
\* when only the fragments whose conversion succeeded are put to
\* should_delete_file, in order.
RECURSIVE Replay(_, _)
Replay(log, k) ==
    IF k = 0 THEN NoSizes
    ELSE IF log[k].ok
    THEN should_delete_file(log[k].frag, log[k].size, delete_small, min_file_size,
                            remove_duplicates, Replay(log, k - 1)).file_sizes
    ELSE Replay(log, k - 1)

\* C12: within a conversion pass the converter is invoked once for every
\* enumerated fragment, in enumeration order, whatever the earlier outcomes; a
\* fragment whose conversion fails gets no filtering decision, and the
\* decisions of the others and file_sizes are those of the pass without it.
C12_FragmentIsolation ==
    InPass
      => /\ Len(convlog) = (IF pc = "convert_loop" THEN count - 1 ELSE Len(wem_files))
         /\ \A k \in 1..Len(convlog) :
              /\ convlog[k].frag = wem_files[k]
              /\ ~convlog[k].ok => convlog[k].reason = "failed" /\ ~convlog[k].del
              /\ convlog[k].ok
                   => convlog[k].reason
                        = should_delete_file(convlog[k].frag, convlog[k].size,
                                             delete_small, min_file_size,
                                             remove_duplicates,
                                             Replay(convlog, k - 1)).reason
         /\ file_sizes = Replay(convlog, Len(convlog))

\* The first fragment's conversion failed with an output of size 1 written,
\* the second's output of size 1 is kept, the third's is a duplicate of the
\* second's.
C12_Witness ==
    /\ pc = "cleanup"
    /\ remove_duplicates
    /\ ~delete_small
    /\ Len(convlog) = 3
    /\ ~convlog[1].ok
    /\ convlog[1].size = 1
    /\ convlog[2].ok /\ convlog[2].size = 1 /\ convlog[2].reason = "none"
    /\ convlog[3].ok /\ convlog[3].size = 1 /\ convlog[3].reason = "duplicate"
    /\ file_sizes = [s \in {1} |-> wem_files[2]]

Kept(log) == {i \in 1..Len(log) : log[i].ok /\ ~log[i].del}
FirstKept(log, s) ==
    CHOOSE i \in Kept(log) :
        /\ log[i].size = s
        /\ \A j \in Kept(log) : log[j].size = s => i <= j

\* C13: during a pass file_sizes holds exactly the sizes of the outputs kept so
\* far, each mapped to the first kept output of that size: a delete decision
\* (small or duplicate) records nothing and overwrites nothing, and with
\* duplicate removal off the dictionary stays empty.
C13_FilterStateOnlyOnKeep ==
    InPass
      => /\ ~remove_duplicates => file_sizes = NoSizes
         /\ remove_duplicates
              => /\ DOMAIN file_sizes = {convlog[i].size : i \in Kept(convlog)}
                 /\ \A s \in DOMAIN file_sizes :
                      file_sizes[s] = convlog[FirstKept(convlog, s)].frag

\* Outputs of sizes [1, 1, 2] decided [keep, delete-as-duplicate, keep]:
\* file_sizes maps 1 to the first fragment and 2 to the third.
C13_Witness ==
    /\ InPass
    /\ remove_duplicates
    /\ ~delete_small
    /\ Len(convlog) = 3
    /\ \A i \in 1..3 : convlog[i].ok
    /\ <<convlog[1].size, convlog[2].size, convlog[3].size>> = <<1, 1, 2>>
    /\ <<convlog[1].del, convlog[2].del, convlog[3].del>> = <<FALSE, TRUE, FALSE>>
    /\ DOMAIN file_sizes = {1, 2}
    /\ file_sizes[1] = convlog[1].frag
    /\ file_sizes[2] = convlog[3].frag

ArchiveCopy(b) == Append(Workspace(b), BnkName(b))
LeftExtract == pc \in {"convert", "err_extract"}

\* C14: whenever extract_bnk has returned, with either result, and whenever
\* process_bnk_file has returned, the working directory is the one at entry
\* and the workspace does not hold the copy of the archive.
C14_ArchiveCopyRemoved ==
    /\ LeftExtract
         => /\ cwd = LaunchDir
            /\ ~PathExists(dirs, files, ArchiveCopy(cur))
    /\ Returned
         => /\ cwd = LaunchDir
            /\ ~PathExists(dirs, files, ArchiveCopy(files_to_process[idx - 1]))

\* C15: in every state in which an error message has just been printed (the
\* diagnostic of run_command, the extraction-failure, no-fragments and
\* exception messages of process_bnk_file, the failed-conversion message),
\* the spinner is not running.
C15_SpinnerStoppedBeforeErrors ==
    printed # "none" => ~spinning /\ threads = 0

Positions == 1..Len(files_to_process)
Started(i) == i < idx \/ (i = idx /\ pc \notin {"main", "loop", "done"})
Done(i) == i < idx

\* The workspaces on disk that this run created: those of the archives it has
\* started, but for a leftover whose removal at acquisition raised.
CreatedWorkspaces ==
    {Workspace(files_to_process[i]) :
        i \in {j \in Positions : Started(j) /\ ~(j = idx /\ fault = "rmtree_stale")}}
      \cap dirs

\* The part of C16 that is about the order of processing: at most one archive
\* is between its start and its return, the archives start in selection order,
\* and one starts only when all before it have returned with an outcome.
C16_OneAtATime ==
    /\ Cardinality({i \in Positions : Started(i) /\ ~Done(i)}) <= 1
    /\ \A i \in Positions :
         Started(i)
           => \A j \in 1..(i - 1) :
                /\ Done(j)
                /\ j <= Len(outcomes)
                /\ outcomes[j].archive = files_to_process[j]
    /\ Len(outcomes) <= idx
    /\ Len(outcomes) = idx => pc = "finally"

\* C16 (as stated): processing is strictly sequential, and at most one
\* workspace directory created by this run exists at any time.
C16_StrictlySequential ==
    /\ C16_OneAtATime
    /\ Cardinality(CreatedWorkspaces) <= 1

\* C16 (amended): processing is strictly sequential, and at most one workspace
\* directory created by this run exists at any time unless a removal in the
\* finally block raised and was swallowed.
C16_StrictlySequentialUnlessSwallowed ==
    /\ C16_OneAtATime
    /\ ~swallowed => Cardinality(CreatedWorkspaces) <= 1

\* The second archive is being converted; its workspace is the only one on
\* disk, the first archive's having been created and removed.
C16_Witness ==
    /\ idx = 2
    /\ pc = "convert_loop"
    /\ ~swallowed
    /\ Len(outcomes) = 1
    /\ CreatedWorkspaces = {Workspace(files_to_process[2])}
    /\ ~PathExists(dirs, files, Workspace(files_to_process[1]))

FragmentPath(b, i) == Append(Workspace(b), WemName(i))

\* C17: a leftover temp_<basename> found at acquisition is removed with all it
\* holds before the workspace is created: the workspace is empty when
\* extraction starts, the fragments a conversion pass enumerates were all
\* written by this run's extraction, and nothing left by the prior run is
\* converted or moved out.
C17_StaleWorkspacePurged ==
    /\ pc = "purged" => ~PathExists(dirs, files, Workspace(cur))
    /\ pc \in {"mkout", "extract"}
         => /\ Workspace(cur) \in dirs
            /\ Under(Workspace(cur), files) = {}
    /\ pc = "convert_loop"
         => \A k \in 1..Len(wem_files) :
              /\ PathExists(dirs, files, FragmentPath(cur, wem_files[k]))
              /\ FileAt(files, FragmentPath(cur, wem_files[k])).org = cur
    /\ \A f \in files :
         f.org = "prior"
           => /\ f \in StaleFiles
              /\ \A i \in Positions :
                   (Started(i) /\ IsPrefix(Workspace(files_to_process[i]), f.path))
                     => fault = "rmtree_stale"

\* The leftover workspace of archive a has just been removed, fragment and
\* all, and is about to be created fresh.
C17_Witness ==
    /\ pc = "purged"
    /\ cur = "a"
    /\ ~PathExists(dirs, files, Workspace(cur))
    /\ files = {}

\* C18: when no fault was raised, process_bnk_file returns True exactly when
\* extraction reported success and the conversion pass found at least one
\* fragment, whatever the converter did and whatever the filter decided; the
\* archive enters the report exactly when it returned True.
C18_SuccessIndependentOfConversions ==
    /\ (pc = "finally" /\ fault = "none")
         => /\ result <=> (success /\ wem_files # << >>)
            /\ result <=> LastOutcome.kind = "ok"
    /\ Returned
         => (LastOutcome.archive \in Range(processed_files) <=> LastOutcome.kind = "ok")

\* An archive returns True although its first fragment failed to convert and
\* the output of its second was deleted: no converted output is left.
C18_Witness ==
    /\ pc = "finally"
    /\ fault = "none"
    /\ result
    /\ Len(convlog) = 2
    /\ ~convlog[1].ok
    /\ convlog[2].ok /\ convlog[2].del
    /\ ~\E f \in Under(OutputSubdir(cur), files) : Last(f.path).k = "ext"

Retained(b) == {f \in Under(OutputSubdir(b), files) : Last(f.path).k = "wem"}

\* cleanup_temp_dir is entered only on the success path: after a successful
\* extraction and a pass over at least one fragment, with no failure recorded
\* for the archive.
C19_CleanupOnlyOnSuccessPath ==
    pc \in {"cleanup", "return_true"}
      => /\ success
         /\ wem_files # << >>
         /\ Len(outcomes) = idx - 1

\* C19 (as stated): on every failure path of process_bnk_file (extraction
\* returned false, no fragment, a caught exception) cleanup_temp_dir is not
\* called: no fragment is moved to the output subdirectory, and the workspace
\* is gone with all its fragments when the archive has returned.
C19_NoRetentionOnFailure ==
    /\ C19_CleanupOnlyOnSuccessPath
    /\ \A i \in 1..Len(outcomes) :
         outcomes[i].kind # "ok" => Retained(outcomes[i].archive) = {}
    /\ (Returned /\ LastOutcome.kind # "ok")
         => ~PathExists(dirs, files, Workspace(LastOutcome.archive))

\* C19 (amended): on the failure paths that do not pass through
\* cleanup_temp_dir (extraction returned false, no fragment, an exception
\* raised before cleanup_temp_dir) no fragment is moved to the output
\* subdirectory; the workspace is gone with all its fragments when the
\* archive has returned, unless the removal in the finally block raised and
\* was swallowed.
C19_NoRetentionOnFailureBeforeCleanup ==
    /\ C19_CleanupOnlyOnSuccessPath
    /\ \A i \in 1..Len(outcomes) :
         outcomes[i].kind \in {"extract_failed", "no_wem"}
           => Retained(outcomes[i].archive) = {}
    /\ (pc \in {"except", "err_exception", "finally"} /\ fault \in {"copy2", "chdir"})
         => Retained(cur) = {}
    /\ (Returned /\ LastOutcome.kind # "ok" /\ ~swallowed)
         => ~PathExists(dirs, files, Workspace(LastOutcome.archive))

\* Extraction returned false after the extractor had written fragments, and
\* fragment retention was requested: the fragments are in the workspace the
\* finally block is about to remove, none is in the output subdirectory.
C19_Witness ==
    /\ pc = "finally"
    /\ ~cleanup_wem
    /\ ~result
    /\ LastOutcome.kind = "extract_failed"
    /\ \E f \in Under(Workspace(cur), files) : Last(f.path).k = "wem"
    /\ Retained(cur) = {}

\* C20: at most one spinner thread is ever alive, and one is alive exactly while
\* the spinner is between a start and the stop that follows it; no spinner
\* thread is alive when process_bnk_file is entered or left, nor when the
\* summary is printed.
C20_SpinnerLifecycle ==
    /\ threads <= 1
    /\ spinning <=> threads = 1
    /\ pc \in {"main", "loop", "purged", "mkout", "extract", "err_extract", "err_nowem",
               "err_exception", "return_true", "finally", "crashed", "done"}
         => ~spinning /\ threads = 0

\* os.chdir raised while the extraction spinner was running; the handler has
\* stopped the spinner before the message and the return.
C20_Witness ==
    /\ pc = "err_exception"
    /\ fault = "chdir"
    /\ ~spinning
    /\ threads = 0

====
